---- MODULE Spec2Model ----
(***************************************************************************)
(* The unified HTTP error pipeline of go-clean-arch: the AppError taxonomy *)
(* and handleError (internal/handler/middleware/error.go), the middleware  *)
(* chain registered by main (ErrorHandler around ErrorMiddleware), and the *)
(* article handlers with getStatusCode (internal/handler).  One request is *)
(* followed through the gin handler chain it was routed to; the requests   *)
(* net/http serves on other goroutines at the same time are parked beside  *)
(* it, and share the package-level sentinel errors with it.                *)
(*                                                                         *)
(* The Chinese message literals of the source cannot be written in a TLA+  *)
(* string; each is transliterated (pinyin), one distinct string per        *)
(* distinct literal, with the literal in the comment beside it.            *)
(***************************************************************************)
EXTENDS Integers, Sequences, FiniteSets, TLC

VARIABLES
    req,          \* the inbound request: handlers chain, route, method, parameters
    pc,           \* "next" | "return" | "panic" | "done" | "crashed"
    idx,          \* gin's c.index: the frame of the chain control is in (1-based)
    errors,       \* c.Errors: the *gin.Error values attached so far
    aborted,      \* c.Abort() was called (index = abortIndex)
    status,       \* the response writer's status (gin's default is 200)
    wroteHeader,  \* the response writer's Written()
    body,         \* the bodies written to the client, in order
    headers,      \* response headers, a set of <<name, value>>
    logs,         \* records handed to a logger, in order
    panicVal,     \* the value of the panic in flight (NoPanic when none)
    recovered,    \* the value handed to the recovery callback (NoPanic when none)
    svcCalls,     \* ArticleService methods invoked, with their results
    ctx,          \* the request context: "background" | "deadline" | "cancelled"
    sentinels,    \* the package-level variables ErrBadRequest .. ErrInternalServerError
    parked        \* the other requests in flight, each as a snapshot of its state

vars == <<req, pc, idx, errors, aborted, status, wroteHeader, body, headers,
          logs, panicVal, recovered, svcCalls, ctx, sentinels, parked>>

\* ---------------------------------------------------------------- bounds
\* the number of HandleError calls one generic handler run may make
MaxAttach == 2

\* the number of requests served at the same time
MaxConcurrent == 2

\* ------------------------------------------------------- net/http status
StatusOK == 200
StatusCreated == 201
StatusNoContent == 204
StatusBadRequest == 400
StatusUnauthorized == 401
StatusForbidden == 403
StatusNotFound == 404
StatusConflict == 409
StatusInternalServerError == 500
StatusServiceUnavailable == 503

\* ------------------------------------------------------- message literals
MsgBadRequest == "qingqiu canshu cuowu"              \* "请求参数错误"
MsgUnauthorized == "wei shouquan fangwen"            \* "未授权访问"
MsgForbidden == "jinzhi fangwen"                     \* "禁止访问"
MsgNotFound == "ziyuan bu cunzai"                    \* "资源不存在"
MsgConflict == "ziyuan chongtu"                      \* "资源冲突"
MsgInternalServerError == "fuwuqi neibu cuowu"       \* "服务器内部错误"
MsgFetchFailed == "huoqu wenzhang liebiao shibai"    \* "获取文章列表失败"
MsgGetFailed == "huoqu wenzhang shibai"              \* "获取文章失败"
MsgValidateFailed == "canshu yanzheng shibai"        \* "参数验证失败"
MsgStoreFailed == "chuangjian wenzhang shibai"       \* "创建文章失败"
MsgDeleteFailed == "shanchu wenzhang shibai"         \* "删除文章失败"

MsgMethodNotAllowed == "qingqiu fangfa bu yunxu"     \* "请求方法不允许"
MsgUnprocessable == "qingqiu shuju geshi cuowu"      \* "请求数据格式错误"
MsgTooManyRequests == "qingqiu guoyu pinfan"         \* "请求过于频繁"
MsgBadGateway == "wangguan cuowu"                    \* "网关错误"
MsgUnavailable == "fuwu zan bu keyong"               \* "服务暂不可用"
MsgGatewayTimeout == "wangguan chaoshi"              \* "网关超时"
MsgUnknown == "weizhi cuowu"                         \* "未知错误"

\* ------------------------------------------------------------ error values
\* A Go error (or panic) value is a record tagged by its dynamic type in k.
NilErr == [k |-> "nil"]                                   \* the nil error
NoPanic == [k |-> "none"]                                 \* no panic in flight
Opaque(t) == [k |-> "opaque", text |-> t]                 \* errors.New(t)
WrapErr(t, e) == [k |-> "wrap", text |-> t, Err |-> e]    \* fmt.Errorf("..%w", e)
GinError(e) == [k |-> "gin", Err |-> e]                   \* &gin.Error{Err: e}
StrVal(t) == [k |-> "str", text |-> t]                    \* a string (not an error)
NilAppError == [k |-> "nilapp"]                           \* error((*AppError)(nil))
RuntimeError(t) == [k |-> "runtime", text |-> t]          \* a runtime.Error

\* the runtime.Error of a method call through a nil pointer or nil interface
NilDereference ==
    RuntimeError("runtime error: invalid memory address or nil pointer dereference")

\* type AppError struct { Code; Message; Details; Err }
AppError(code, message, details, err) ==
    [k |-> "app", Code |-> code, Message |-> message, Details |-> details, Err |-> err]

ErrBadRequest == AppError(StatusBadRequest, MsgBadRequest, "", NilErr)
ErrUnauthorized == AppError(StatusUnauthorized, MsgUnauthorized, "", NilErr)
ErrForbidden == AppError(StatusForbidden, MsgForbidden, "", NilErr)
ErrNotFound == AppError(StatusNotFound, MsgNotFound, "", NilErr)
ErrConflict == AppError(StatusConflict, MsgConflict, "", NilErr)
ErrInternalServerError ==
    AppError(StatusInternalServerError, MsgInternalServerError, "", NilErr)

Sentinels == {ErrBadRequest, ErrUnauthorized, ErrForbidden, ErrNotFound,
              ErrConflict, ErrInternalServerError}

\* the package-level var ( ... ) block, as the program starts with it
SentinelVars ==
    [ErrBadRequest |-> ErrBadRequest, ErrUnauthorized |-> ErrUnauthorized,
     ErrForbidden |-> ErrForbidden, ErrNotFound |-> ErrNotFound,
     ErrConflict |-> ErrConflict, ErrInternalServerError |-> ErrInternalServerError]

NewAppError(code, message, details) == AppError(code, message, details, NilErr)

\* a constructor that fills Details from the wrapped error's text
NewAppErrorWithErrLeaky(code, message, err) ==
    AppError(code, message, IF err = NilErr THEN "" ELSE err.text, err)

NewAppErrorWithErr(code, message, err) == AppError(code, message, "", err)

\* the sentinels of package domain, matched by identity in getStatusCode
DomainErrInternalServerError == Opaque("internal Server Error")
DomainErrNotFound == Opaque("your requested Item is not found")
DomainErrConflict == Opaque("your Item already exist")

DomainSentinels ==
    {DomainErrInternalServerError, DomainErrNotFound, DomainErrConflict}

IsError(v) == v.k \in {"app", "opaque", "wrap", "gin", "nilapp", "runtime"}

\* the result of the type assertion recovered.(error) in ErrorHandler
RecoveredIsError(v) == IsError(v)

\* (e *AppError) Error(), and Error() of the other error types
RECURSIVE ErrorText(_)
ErrorText(e) ==
    CASE e.k = "app" -> IF e.Err # NilErr THEN ErrorText(e.Err) ELSE e.Message
      [] e.k = "gin" -> ErrorText(e.Err)
      [] OTHER -> e.text

\* err.Error() panics: the call goes through a nil interface, or reads e.Err
\* of a nil *AppError, or reaches such a value through Err
RECURSIVE ErrorPanics(_)
ErrorPanics(e) ==
    CASE e.k \in {"nil", "nilapp"} -> TRUE
      [] e.k = "app" -> e.Err # NilErr /\ ErrorPanics(e.Err)
      [] e.k = "gin" -> ErrorPanics(e.Err)
      [] OTHER -> FALSE

\* errors.As(err, &appErr): the first *AppError in err's Unwrap chain, or
\* NilErr.  AppError has no Unwrap method, so the chain ends at an AppError.
\* The match is by type: a nil *AppError matches too, and appErr is then nil.
RECURSIVE AsAppError(_)
AsAppError(e) ==
    CASE e.k \in {"app", "nilapp"} -> e
      [] e.k \in {"wrap", "gin"} -> AsAppError(e.Err)
      [] OTHER -> NilErr

\* handleError(c, err, logger) panics before it logs or writes: in err.Error()
\* for its log fields, or in appErr.Code when errors.As matched a nil *AppError
HandleErrorPanics(err) == ErrorPanics(err) \/ AsAppError(err) = NilAppError

\* errors.As(err, &parsedError) in gin's c.Error: the first *gin.Error
RECURSIVE AsGinError(_)
AsGinError(e) ==
    CASE e.k = "gin" -> e
      [] e.k = "wrap" -> AsGinError(e.Err)
      [] OTHER -> NilErr

\* the type assertion err.(*gin.Error) in handleError
IsGinError(e) == e.k = "gin"

\* ------------------------------------------------------------ ErrorResponse
ErrorResponse(code, message, details) ==
    [Code |-> code, Message |-> message, Details |-> details]

\* encoding/json of an ErrorResponse: details has the omitempty tag
MarshalErrorResponse(r) ==
    {<<"code", r.Code>>, <<"message", r.Message>>}
        \cup (IF r.Details = "" THEN {} ELSE {<<"details", r.Details>>})

\* ------------------------------------------------------------- handleError
\* What handleError logs and hands to c.JSON for a non-nil err.
\* the severity test written with > in place of >=
AppErrorLevelStrict(appErr) ==
    IF appErr.Code > StatusInternalServerError THEN "error" ELSE "warn"

AppErrorLevel(appErr) ==
    IF appErr.Code >= StatusInternalServerError THEN "error" ELSE "warn"

AppErrorBranch(appErr) ==
    [level |-> AppErrorLevel(appErr),
     msg |-> IF appErr.Code >= StatusInternalServerError
             THEN "Server error" ELSE "Client error",
     code |-> appErr.Code,
     resp |-> ErrorResponse(appErr.Code, appErr.Message, appErr.Details)]

BindingBranch(bindErr) ==
    [level |-> "warn", msg |-> "Binding error", code |-> StatusBadRequest,
     resp |-> ErrorResponse(StatusBadRequest, MsgBadRequest, ErrorText(bindErr))]

UnknownBranch ==
    [level |-> "error", msg |-> "Unknown error", code |-> StatusInternalServerError,
     resp |-> ErrorResponse(StatusInternalServerError, MsgInternalServerError, "")]

\* handleError without the *gin.Error type check: whatever is not an AppError
\* is answered as a binding error, with the error text as details
ClassifyNoTypeCheck(err) ==
    IF AsAppError(err) # NilErr THEN AppErrorBranch(AsAppError(err))
    ELSE BindingBranch(err)

Classify(err) ==
    IF AsAppError(err) # NilErr THEN AppErrorBranch(AsAppError(err))
    ELSE IF IsGinError(err) THEN BindingBranch(err)
    ELSE UnknownBranch

\* a recovery callback that answers every panic as ErrInternalServerError
RecoveredErrorAlwaysInternal(v) == ErrInternalServerError

\* getHTTPErrorMessage(code)
getHTTPErrorMessage(code) ==
    CASE code = 400 -> MsgBadRequest
      [] code = 401 -> MsgUnauthorized
      [] code = 403 -> MsgForbidden
      [] code = 404 -> MsgNotFound
      [] code = 405 -> MsgMethodNotAllowed
      [] code = 409 -> MsgConflict
      [] code = 422 -> MsgUnprocessable
      [] code = 429 -> MsgTooManyRequests
      [] code = 500 -> MsgInternalServerError
      [] code = 502 -> MsgBadGateway
      [] code = 503 -> MsgUnavailable
      [] code = 504 -> MsgGatewayTimeout
      [] OTHER -> MsgUnknown

\* what ErrorHandler's recovery callback passes to handleError
RecoveredError(v) ==
    IF RecoveredIsError(v) THEN v ELSE sentinels.ErrInternalServerError

\* ------------------------------------------------- gin's response writer
\* the response writer as a value, so that one handler can make several calls
Writer ==
    [status |-> status, wroteHeader |-> wroteHeader, body |-> body, headers |-> headers]

SetWriter(w) ==
    /\ status' = w.status
    /\ wroteHeader' = w.wroteHeader
    /\ body' = w.body
    /\ headers' = w.headers

\* c.Header(key, value): an empty value deletes the header; headers changed
\* after the header went out reach no client
SetHeader(w, key, value) ==
    IF w.wroteHeader THEN w
    ELSE IF value = "" THEN [w EXCEPT !.headers = {h \in @ : h[1] # key}]
    ELSE [w EXCEPT !.headers = {h \in @ : h[1] # key} \cup {<<key, value>>}]

\* c.Status(code): responseWriter.WriteHeader keeps the status once written
WriteHeader(w, code) ==
    IF code > 0 /\ w.status # code /\ ~w.wroteHeader
    THEN [w EXCEPT !.status = code] ELSE w

WriteHeaderNow(w) == [w EXCEPT !.wroteHeader = TRUE]

WriteContentType(w) ==
    IF \E h \in w.headers : h[1] = "Content-Type" THEN w
    ELSE SetHeader(w, "Content-Type", "application/json; charset=utf-8")

BodyAllowedForStatus(code) ==
    ~(code \in 100..199 \/ code = 204 \/ code = 304)

\* c.JSON(code, obj) called by stage `by`, obj already marshalled
CtxJSON(w, code, json, by) ==
    LET w1 == WriteContentType(WriteHeader(w, code)) IN
    IF BodyAllowedForStatus(code)
    THEN [WriteHeaderNow(w1) EXCEPT !.body = Append(@, [by |-> by, json |-> json])]
    ELSE WriteHeaderNow(w1)

\* c.Error(err) for a non-nil err: the *gin.Error appended to c.Errors
CtxError(err) ==
    IF AsGinError(err) # NilErr THEN AsGinError(err) ELSE GinError(err)

\* c.Errors[0] in place of c.Errors.Last()
LastIsFirst(s) == s[1]

\* c.Errors.Last()
Last(s) == s[Len(s)]

\* the log record and the response of handleError(c, err, logger)
LogRecord(err, by) ==
    [logger |-> "middleware", level |-> Classify(err).level,
     msg |-> Classify(err).msg, error |-> ErrorText(err), by |-> by]

handleError(err, by) ==
    /\ logs' = Append(logs, LogRecord(err, by))
    /\ SetWriter(CtxJSON(Writer, Classify(err).code,
                         MarshalErrorResponse(Classify(err).resp), by))

\* ------------------------------------------------------------ the request
\* the chain with ErrorMiddleware registered before ErrorHandler
MainChainPropagationFirst ==
    <<"Logger", "ErrorMiddleware", "ErrorHandler", "CORS", "Timeout", "Handler">>

\* r.Use(gin.Logger()); r.Use(ErrorHandler); r.Use(ErrorMiddleware);
\* r.Use(CORS()); r.Use(SetRequestContextWithTimeout); then the route's handler
MainChain ==
    <<"Logger", "ErrorHandler", "ErrorMiddleware", "CORS", "Timeout", "Handler">>

\* setupRouter() followed by NewArticleHandler: gin.New() with no middleware
TestChain == <<"Handler">>

Request(chain, route, method, numS, cursor, idParam, reqBody) ==
    [handlers |-> chain, route |-> route, method |-> method, numS |-> numS,
     cursor |-> cursor, idParam |-> idParam, reqBody |-> reqBody]

Requests ==
    UNION {
        {Request(ch, "Fetch", "GET", n, cu, "-", "-") :
            n \in {"absent", "1", "0", "abc"}, cu \in {"", "2"}}
        \cup {Request(ch, r, m, "-", "-", id, "-") :
            r \in {"GetByID"}, m \in {"GET"}, id \in {"7", "invalid"}}
        \cup {Request(ch, r, m, "-", "-", id, "-") :
            r \in {"Delete"}, m \in {"DELETE"}, id \in {"7", "invalid"}}
        \cup {Request(ch, "Store", "POST", "-", "-", "-", b) :
            b \in {"valid", "invalid json", "no title"}}
        \cup {Request(ch, "Dangerous", "GET", "-", "-", "-", "-")}
        \cup {Request(ch, "any", m, "-", "-", "-", "-") : m \in {"GET", "OPTIONS"}}
      : ch \in {MainChain, TestChain}}

\* The errors a handler may hand to HandleError, and the values it may panic
\* with.  AppError codes are HTTP error statuses (400..503).  Among the
\* attached errors are the nil error, a nil *AppError, an error wrapping a
\* nil *AppError and a *gin.Error whose Err is nil.  A handler may panic
\* with any error it may attach, or with a string.  Panic values are non-nil
\* and are not the broken-connection *net.OpError that gin's recovery sets
\* aside without calling the callback.
AttachErrors ==
    {NilErr, ErrNotFound, ErrBadRequest, ErrInternalServerError,
     NewAppError(StatusNotFound, "not found", "id=7"),
     NewAppError(StatusServiceUnavailable, "unavailable", "db down"),
     NewAppErrorWithErr(StatusConflict, MsgStoreFailed, DomainErrConflict),
     WrapErr("lookup: ziyuan bu cunzai", ErrNotFound),
     Opaque("sql: connection refused"), Opaque("context deadline exceeded"),
     DomainErrNotFound,
     GinError(Opaque("EOF")), GinError(GinError(Opaque("EOF"))),
     NilAppError, GinError(NilErr), WrapErr("lookup: <nil>", NilAppError)}

PanicValues ==
    (AttachErrors \ {NilErr}) \cup {StrVal("boom"), StrVal("something went wrong")}

Init ==
    /\ req \in Requests
    /\ pc = "next"
    /\ idx = 1
    /\ errors = <<>>
    /\ aborted = FALSE
    /\ status = StatusOK
    /\ wroteHeader = FALSE
    /\ body = <<>>
    /\ headers = {}
    /\ logs = <<>>
    /\ panicVal = NoPanic
    /\ recovered = NoPanic
    /\ svcCalls = <<>>
    /\ ctx = "background"
    /\ sentinels = SentinelVars
    /\ parked = <<>>

\* the state of the request control is in, as one value
Snapshot ==
    [req |-> req, pc |-> pc, idx |-> idx, errors |-> errors, aborted |-> aborted,
     status |-> status, wroteHeader |-> wroteHeader, body |-> body,
     headers |-> headers, logs |-> logs, panicVal |-> panicVal,
     recovered |-> recovered, svcCalls |-> svcCalls, ctx |-> ctx]

\* a request as ServeHTTP receives it
NewRequest(r) ==
    [req |-> r, pc |-> "next", idx |-> 1, errors |-> <<>>, aborted |-> FALSE,
     status |-> StatusOK, wroteHeader |-> FALSE, body |-> <<>>,
     headers |-> {}, logs |-> <<>>, panicVal |-> NoPanic,
     recovered |-> NoPanic, svcCalls |-> <<>>, ctx |-> "background"]

\* the requests served concurrently: an id that does not parse (answered with
\* the shared ErrBadRequest), a lookup, and a handler that panics (answered
\* with the shared ErrInternalServerError)
ConcRequests ==
    {Request(MainChain, "GetByID", "GET", "-", "-", id, "-") : id \in {"7", "invalid"}}
        \cup {Request(MainChain, "Dangerous", "GET", "-", "-", "-", "-")}

InitConc ==
    /\ req \in ConcRequests
    /\ pc = "next"
    /\ idx = 1
    /\ errors = <<>>
    /\ aborted = FALSE
    /\ status = StatusOK
    /\ wroteHeader = FALSE
    /\ body = <<>>
    /\ headers = {}
    /\ logs = <<>>
    /\ panicVal = NoPanic
    /\ recovered = NoPanic
    /\ svcCalls = <<>>
    /\ ctx = "background"
    /\ sentinels = SentinelVars
    /\ parked \in [1..(MaxConcurrent - 1) -> {NewRequest(r) : r \in ConcRequests}]

\* the scheduler runs another request's goroutine: its state is loaded, the
\* state of the request that was running is parked in its place
Switch ==
    /\ \E i \in 1..Len(parked) :
         /\ req' = parked[i].req
         /\ pc' = parked[i].pc
         /\ idx' = parked[i].idx
         /\ errors' = parked[i].errors
         /\ aborted' = parked[i].aborted
         /\ status' = parked[i].status
         /\ wroteHeader' = parked[i].wroteHeader
         /\ body' = parked[i].body
         /\ headers' = parked[i].headers
         /\ logs' = parked[i].logs
         /\ panicVal' = parked[i].panicVal
         /\ recovered' = parked[i].recovered
         /\ svcCalls' = parked[i].svcCalls
         /\ ctx' = parked[i].ctx
         /\ parked' = [parked EXCEPT ![i] = Snapshot]
    /\ UNCHANGED sentinels

At(name) == pc = "next" /\ idx <= Len(req.handlers) /\ req.handlers[idx] = name

\* control is coming back, in state p, into the frame of middleware `name`
BackIn(p, name) == pc = p /\ idx > 1 /\ req.handlers[idx - 1] = name

\* ------------------------------------------------------------ middlewares
\* gin.Logger(): c.Next(), then a line on gin's own writer
Logger ==
    /\ At("Logger")
    /\ idx' = idx + 1
    /\ UNCHANGED <<sentinels, parked, req, pc, errors, aborted, status, wroteHeader, body, headers,
                   logs, panicVal, svcCalls, ctx, recovered>>

\* ErrorHandler: gin.CustomRecovery defers the recovery and calls c.Next()
ErrorHandler ==
    /\ At("ErrorHandler")
    /\ idx' = idx + 1
    /\ UNCHANGED <<sentinels, parked, req, pc, errors, aborted, status, wroteHeader, body, headers,
                   logs, panicVal, svcCalls, ctx, recovered>>

\* a recovery callback that records the panic value on the shared
\* ErrInternalServerError (ErrInternalServerError.Details = fmt.Sprint(recovered))
\* before answering with it
RecoveryEnrichesSentinel ==
    /\ BackIn("panic", "ErrorHandler")
    /\ IF RecoveredIsError(panicVal)
       THEN /\ handleError(panicVal, "ErrorHandler")
            /\ UNCHANGED sentinels
       ELSE /\ sentinels' = [sentinels EXCEPT
                                !.ErrInternalServerError.Details = panicVal.text]
            /\ handleError([sentinels.ErrInternalServerError EXCEPT
                                !.Details = panicVal.text], "ErrorHandler")
    /\ recovered' = panicVal
    /\ panicVal' = NoPanic
    /\ pc' = "return"
    /\ idx' = idx - 1
    /\ UNCHANGED <<parked, req, errors, aborted, svcCalls, ctx>>

\* the recovery callback of ErrorHandler, run when a panic unwinds into it.
\* When handleError itself panics on the recovered value, the callback runs
\* inside gin's deferred function, where nothing recovers: the new panic
\* leaves ErrorHandler with nothing logged or written.
Recovery ==
    /\ BackIn("panic", "ErrorHandler")
    /\ IF HandleErrorPanics(RecoveredError(panicVal))
       THEN /\ panicVal' = NilDereference
            /\ pc' = "panic"
            /\ UNCHANGED <<logs, status, wroteHeader, body, headers>>
       ELSE /\ handleError(RecoveredError(panicVal), "ErrorHandler")
            /\ panicVal' = NoPanic
            /\ pc' = "return"
    /\ recovered' = panicVal
    /\ idx' = idx - 1
    /\ UNCHANGED <<sentinels, parked, req, errors, aborted, svcCalls, ctx>>

\* ErrorMiddleware up to its c.Next()
ErrorMiddleware ==
    /\ At("ErrorMiddleware")
    /\ idx' = idx + 1
    /\ UNCHANGED <<sentinels, parked, req, pc, errors, aborted, status, wroteHeader, body, headers,
                   logs, panicVal, svcCalls, ctx, recovered>>

\* ErrorMiddleware answering only when more than one error was attached
ErrorMiddlewareAfterNextOffByOne ==
    /\ BackIn("return", "ErrorMiddleware")
    /\ IF Len(errors) > 1
       THEN IF HandleErrorPanics(Last(errors).Err)
            THEN /\ pc' = "panic"
                 /\ panicVal' = NilDereference
                 /\ UNCHANGED <<logs, status, wroteHeader, body, headers, aborted>>
            ELSE /\ handleError(Last(errors).Err, "ErrorMiddleware")
                 /\ aborted' = TRUE
                 /\ UNCHANGED <<pc, panicVal>>
       ELSE UNCHANGED <<logs, status, wroteHeader, body, headers, aborted, pc, panicVal>>
    /\ idx' = idx - 1
    /\ UNCHANGED <<sentinels, parked, req, errors, svcCalls, ctx, recovered>>

\* ErrorMiddleware with c.Abort() outside the check of c.Errors
ErrorMiddlewareAfterNextAlwaysAbort ==
    /\ BackIn("return", "ErrorMiddleware")
    /\ IF Len(errors) > 0
       THEN IF HandleErrorPanics(Last(errors).Err)
            THEN /\ pc' = "panic"
                 /\ panicVal' = NilDereference
                 /\ UNCHANGED <<logs, status, wroteHeader, body, headers, aborted>>
            ELSE /\ handleError(Last(errors).Err, "ErrorMiddleware")
                 /\ aborted' = TRUE
                 /\ UNCHANGED <<pc, panicVal>>
       ELSE /\ aborted' = TRUE
            /\ UNCHANGED <<logs, status, wroteHeader, body, headers, pc, panicVal>>
    /\ idx' = idx - 1
    /\ UNCHANGED <<sentinels, parked, req, errors, svcCalls, ctx, recovered>>

\* ErrorMiddleware after c.Next() returned.  handleError calls err.Error()
\* for its log fields before it logs or writes: when that call panics, the
\* panic leaves ErrorMiddleware with nothing logged, written or aborted.
ErrorMiddlewareAfterNext ==
    /\ BackIn("return", "ErrorMiddleware")
    /\ IF Len(errors) > 0
       THEN IF HandleErrorPanics(Last(errors).Err)
            THEN /\ pc' = "panic"
                 /\ panicVal' = NilDereference
                 /\ UNCHANGED <<logs, status, wroteHeader, body, headers, aborted>>
            ELSE /\ handleError(Last(errors).Err, "ErrorMiddleware")
                 /\ aborted' = TRUE
                 /\ UNCHANGED <<pc, panicVal>>
       ELSE UNCHANGED <<logs, status, wroteHeader, body, headers, aborted, pc, panicVal>>
    /\ idx' = idx - 1
    /\ UNCHANGED <<sentinels, parked, req, errors, svcCalls, ctx, recovered>>

\* CORS(): the three Access-Control headers; OPTIONS is answered 204 and aborted
CORS ==
    /\ At("CORS")
    /\ LET w == SetHeader(SetHeader(SetHeader(Writer,
                    "Access-Control-Allow-Origin", "*"),
                    "Access-Control-Allow-Methods", "GET, POST, PUT, DELETE, OPTIONS"),
                    "Access-Control-Allow-Headers", "Content-Type, Authorization")
       IN IF req.method = "OPTIONS"
          THEN /\ SetWriter(WriteHeaderNow(WriteHeader(w, StatusNoContent)))
               /\ aborted' = TRUE
               /\ pc' = "return"
               /\ idx' = idx
          ELSE /\ SetWriter(w)
               /\ idx' = idx + 1
               /\ UNCHANGED <<aborted, pc>>
    /\ UNCHANGED <<sentinels, parked, req, errors, logs, panicVal, svcCalls, ctx, recovered>>

\* SetRequestContextWithTimeout up to its c.Next()
SetRequestContextWithTimeout ==
    /\ At("Timeout")
    /\ ctx' = "deadline"
    /\ idx' = idx + 1
    /\ UNCHANGED <<sentinels, parked, req, pc, errors, aborted, status, wroteHeader, body, headers,
                   logs, panicVal, svcCalls, recovered>>

\* the deferred cancel() of SetRequestContextWithTimeout, on return and on panic
TimeoutCancel ==
    /\ \E p \in {"return", "panic"} : BackIn(p, "Timeout")
    /\ ctx' = "cancelled"
    /\ idx' = idx - 1
    /\ UNCHANGED <<sentinels, parked, req, pc, errors, aborted, status, wroteHeader, body, headers,
                   logs, panicVal, svcCalls, recovered>>

\* a normal return through a frame with nothing left to do after c.Next()
ReturnThrough ==
    /\ \E n \in {"Logger", "ErrorHandler", "CORS"} : BackIn("return", n)
    /\ idx' = idx - 1
    /\ UNCHANGED <<sentinels, parked, req, pc, errors, aborted, status, wroteHeader, body, headers,
                   logs, panicVal, svcCalls, ctx, recovered>>

\* ErrorMiddleware with its check of c.Errors in a deferred function: the
\* check would then run while a panic unwinds through it
PanicThroughDeferredCheck ==
    /\ \E n \in {"Logger", "ErrorMiddleware", "CORS"} : BackIn("panic", n)
    /\ IF req.handlers[idx - 1] = "ErrorMiddleware" /\ Len(errors) > 0
          /\ ~HandleErrorPanics(Last(errors).Err)
       THEN /\ handleError(Last(errors).Err, "ErrorMiddleware")
            /\ aborted' = TRUE
       ELSE UNCHANGED <<logs, status, wroteHeader, body, headers, aborted>>
    /\ idx' = idx - 1
    /\ UNCHANGED <<sentinels, parked, req, pc, errors, panicVal, svcCalls, ctx, recovered>>

\* a panic unwinding through a frame that neither defers nor recovers: the
\* rest of ErrorMiddleware (its check of c.Errors) is skipped
PanicThrough ==
    /\ \E n \in {"Logger", "ErrorMiddleware", "CORS"} : BackIn("panic", n)
    /\ idx' = idx - 1
    /\ UNCHANGED <<sentinels, parked, req, pc, errors, aborted, status, wroteHeader, body, headers,
                   logs, panicVal, svcCalls, ctx, recovered>>

\* the end of gin's ServeHTTP: the header is written if it was not yet
ServeHTTPFinish ==
    /\ pc = "return" /\ idx = 1
    /\ wroteHeader' = TRUE
    /\ pc' = "done"
    /\ UNCHANGED <<sentinels, parked, req, idx, errors, aborted, status, body, headers,
                   logs, panicVal, svcCalls, ctx, recovered>>

\* a panic no middleware recovered leaves ServeHTTP: nothing is written
ServeHTTPPanic ==
    /\ pc = "panic" /\ idx = 1
    /\ pc' = "crashed"
    /\ UNCHANGED <<sentinels, parked, req, idx, errors, aborted, status, wroteHeader, body, headers,
                   logs, panicVal, svcCalls, ctx, recovered>>

\* ------------------------------------------------------- any gin handler
\* A handler written against the middleware's API: it may write a response,
\* call HandleError, panic and return, in any order.
InAnyHandler == At("Handler") /\ req.route = "any"

\* HandleError(c, err) is c.Error(err), which panics on a nil err
HandleError(err) ==
    IF err = NilErr
    THEN /\ pc' = "panic"
         /\ panicVal' = StrVal("err is nil")
         /\ UNCHANGED errors
    ELSE /\ errors' = Append(errors, CtxError(err))
         /\ UNCHANGED <<pc, panicVal>>

HandlerAttach ==
    /\ InAnyHandler
    /\ Len(errors) < MaxAttach
    /\ \E e \in AttachErrors : HandleError(e)
    /\ UNCHANGED <<sentinels, parked, req, idx, aborted, status, wroteHeader, body, headers,
                   logs, svcCalls, ctx, recovered>>

HandlerPanic ==
    /\ InAnyHandler
    /\ \E v \in PanicValues : panicVal' = v
    /\ pc' = "panic"
    /\ UNCHANGED <<sentinels, parked, req, idx, errors, aborted, status, wroteHeader, body, headers,
                   logs, svcCalls, ctx, recovered>>

HandlerWrite ==
    /\ InAnyHandler
    /\ ~wroteHeader
    /\ SetWriter(CtxJSON(Writer, StatusOK, {<<"status", "ok">>}, "Handler"))
    /\ UNCHANGED <<sentinels, parked, req, pc, idx, errors, aborted, logs, panicVal, svcCalls, ctx, recovered>>

HandlerReturn ==
    /\ InAnyHandler
    /\ pc' = "return"
    /\ UNCHANGED <<sentinels, parked, req, idx, errors, aborted, status, wroteHeader, body, headers,
                   logs, panicVal, svcCalls, ctx, recovered>>

\* DangerousHandler of the middleware's README: panic("something went wrong")
DangerousHandler ==
    /\ At("Handler") /\ req.route = "Dangerous"
    /\ panicVal' = StrVal("something went wrong")
    /\ pc' = "panic"
    /\ UNCHANGED <<sentinels, parked, req, idx, errors, aborted, status, wroteHeader,
                   body, headers, logs, svcCalls, ctx, recovered>>

\* The arguments a caller may give the two constructors: they are stored as
\* given, so the zero code and the empty message are among them.
CtorCodes == {0, StatusInternalServerError}

CtorMessages == {"", "not found"}

CtorDetails == {"", "id=7"}

CtorCauses == {Opaque("sql: connection refused")}

\* a handler that builds its error with NewAppError or NewAppErrorWithErr from
\* arbitrary arguments and hands it to HandleError
HandlerAttachBuilt ==
    /\ InAnyHandler
    /\ Len(errors) < MaxAttach
    /\ \E code \in CtorCodes, message \in CtorMessages :
          \/ \E details \in CtorDetails :
                HandleError(NewAppError(code, message, details))
          \/ \E cause \in CtorCauses :
                HandleError(NewAppErrorWithErr(code, message, cause))
    /\ UNCHANGED <<sentinels, parked, req, idx, aborted, status, wroteHeader, body, headers,
                   logs, svcCalls, ctx, recovered>>

\* ------------------------------------------------------ article handlers
defaultNum == 10

\* strconv.Atoi on the parameter strings of the requests
AtoiOk(s) == s \in {"10", "1", "0", "7"}

AtoiValue(s) ==
    CASE s = "10" -> 10 [] s = "1" -> 1 [] s = "7" -> 7 [] OTHER -> 0

\* c.DefaultQuery("num", "10")
DefaultQueryNum(numS) == IF numS = "absent" THEN "10" ELSE numS

\* what an ArticleService method may return as its error
ServiceErrors == DomainSentinels \cup {Opaque("sql: connection refused")}

\* getStatusCode without its default case: an unrecognised error gets the
\* zero value of int
getStatusCodeNoDefault(err) ==
    CASE err = NilErr -> StatusOK
      [] err = DomainErrInternalServerError -> StatusInternalServerError
      [] err = DomainErrNotFound -> StatusNotFound
      [] err = DomainErrConflict -> StatusConflict
      [] OTHER -> 0

\* getStatusCode(err): the domain sentinels are matched by identity
getStatusCode(err) ==
    CASE err = NilErr -> StatusOK
      [] err = DomainErrInternalServerError -> StatusInternalServerError
      [] err = DomainErrNotFound -> StatusNotFound
      [] err = DomainErrConflict -> StatusConflict
      [] OTHER -> StatusInternalServerError

\* logrus.Error(err) inside getStatusCode, on logrus' standard logger
StdLogRecord(err) ==
    [logger |-> "logrus", level |-> "error", msg |-> ErrorText(err),
     error |-> ErrorText(err), by |-> "Handler"]

\* HandleError(c, NewAppErrorWithErr(getStatusCode(err), message, err)); return
FailWith(message, err) ==
    /\ logs' = Append(logs, StdLogRecord(err))
    /\ errors' = Append(errors, CtxError(NewAppErrorWithErr(getStatusCode(err), message, err)))
    /\ UNCHANGED <<status, wroteHeader, body, headers>>

InHandler(route) == At("Handler") /\ req.route = route

\* the next cursor ArticleService.Fetch may return with its list; it is empty
\* when there is no further page
NextCursors == {"10", "20", ""}

FetchArticle ==
    /\ InHandler("Fetch")
    /\ LET numS == DefaultQueryNum(req.numS)
           num == IF ~AtoiOk(numS) \/ AtoiValue(numS) = 0
                  THEN defaultNum ELSE AtoiValue(numS)
       IN \E err \in ServiceErrors \cup {NilErr} :
          \E nextCursor \in IF err = NilErr THEN NextCursors ELSE {""} :
            /\ svcCalls' = Append(svcCalls,
                   [method |-> "Fetch", cursor |-> req.cursor, num |-> num,
                    next |-> nextCursor, err |-> err])
            /\ IF err # NilErr
               THEN FailWith(MsgFetchFailed, err)
               ELSE /\ SetWriter(CtxJSON(SetHeader(Writer, "X-Cursor", nextCursor),
                                         StatusOK, {<<"articles", num>>}, "Handler"))
                    /\ UNCHANGED <<errors, logs>>
    /\ pc' = "return"
    /\ UNCHANGED <<sentinels, parked, req, idx, aborted, panicVal, ctx, recovered>>

GetByID ==
    /\ InHandler("GetByID")
    /\ IF ~AtoiOk(req.idParam)
       THEN /\ errors' = Append(errors, CtxError(sentinels.ErrBadRequest))
            /\ UNCHANGED <<svcCalls, logs, status, wroteHeader, body, headers>>
       ELSE \E err \in ServiceErrors \cup {NilErr} :
            /\ svcCalls' = Append(svcCalls,
                   [method |-> "GetByID", id |-> AtoiValue(req.idParam), err |-> err])
            /\ IF err # NilErr
               THEN FailWith(MsgGetFailed, err)
               ELSE /\ SetWriter(CtxJSON(Writer, StatusOK,
                                         {<<"id", AtoiValue(req.idParam)>>}, "Handler"))
                    /\ UNCHANGED <<errors, logs>>
    /\ pc' = "return"
    /\ UNCHANGED <<sentinels, parked, req, idx, aborted, panicVal, ctx, recovered>>

\* c.ShouldBindJSON(&article): the decoder's error for a body that is not JSON
ShouldBindJSON(reqBody) ==
    IF reqBody = "invalid json"
    THEN Opaque("invalid character 'i' looking for beginning of value")
    ELSE NilErr

\* isRequestValid: the validator's error for a missing required field
isRequestValid(reqBody) ==
    IF reqBody = "no title"
    THEN Opaque("Key: 'Article.Title' Error:Field validation for 'Title' failed on the 'required' tag")
    ELSE NilErr

Store ==
    /\ InHandler("Store")
    /\ IF ShouldBindJSON(req.reqBody) # NilErr
       THEN /\ errors' = Append(errors, CtxError(NewAppErrorWithErr(
                             StatusBadRequest, MsgBadRequest, ShouldBindJSON(req.reqBody))))
            /\ UNCHANGED <<svcCalls, logs, status, wroteHeader, body, headers>>
       ELSE IF isRequestValid(req.reqBody) # NilErr
       THEN /\ errors' = Append(errors, CtxError(NewAppErrorWithErr(
                             StatusBadRequest, MsgValidateFailed, isRequestValid(req.reqBody))))
            /\ UNCHANGED <<svcCalls, logs, status, wroteHeader, body, headers>>
       ELSE \E err \in ServiceErrors \cup {NilErr} :
            /\ svcCalls' = Append(svcCalls, [method |-> "Store", err |-> err])
            /\ IF err # NilErr
               THEN FailWith(MsgStoreFailed, err)
               ELSE /\ SetWriter(CtxJSON(Writer, StatusCreated,
                                         {<<"title", "Title">>}, "Handler"))
                    /\ UNCHANGED <<errors, logs>>
    /\ pc' = "return"
    /\ UNCHANGED <<sentinels, parked, req, idx, aborted, panicVal, ctx, recovered>>

Delete ==
    /\ InHandler("Delete")
    /\ IF ~AtoiOk(req.idParam)
       THEN /\ errors' = Append(errors, CtxError(sentinels.ErrBadRequest))
            /\ UNCHANGED <<svcCalls, logs, status, wroteHeader, body, headers>>
       ELSE \E err \in ServiceErrors \cup {NilErr} :
            /\ svcCalls' = Append(svcCalls,
                   [method |-> "Delete", id |-> AtoiValue(req.idParam), err |-> err])
            /\ IF err # NilErr
               THEN FailWith(MsgDeleteFailed, err)
               ELSE /\ SetWriter(WriteHeader(Writer, StatusNoContent))
                    /\ UNCHANGED <<errors, logs>>
    /\ pc' = "return"
    /\ UNCHANGED <<sentinels, parked, req, idx, aborted, panicVal, ctx, recovered>>

Next ==
    \/ Logger
    \/ ErrorHandler
    \/ Recovery
    \/ ErrorMiddleware
    \/ ErrorMiddlewareAfterNext
    \/ CORS
    \/ SetRequestContextWithTimeout
    \/ TimeoutCancel
    \/ ReturnThrough
    \/ PanicThrough
    \/ ServeHTTPFinish
    \/ ServeHTTPPanic
    \/ HandlerAttach
    \/ HandlerPanic
    \/ HandlerWrite
    \/ HandlerReturn
    \/ DangerousHandler
    \/ FetchArticle
    \/ GetByID
    \/ Store
    \/ Delete

Spec == Init /\ [][Next]_vars

\* the same requests, with handlers that also build AppErrors from any arguments
NextAnyArgs == Next \/ HandlerAttachBuilt

SpecAnyArgs == Init /\ [][NextAnyArgs]_vars

\* the goroutine serving the request keeps running until ServeHTTP is left
FairSpec == Spec /\ WF_vars(Next)

\* MaxConcurrent requests on the main chain, their steps interleaved
NextConc ==
    \/ Logger
    \/ ErrorHandler
    \/ Recovery
    \/ ErrorMiddleware
    \/ ErrorMiddlewareAfterNext
    \/ CORS
    \/ SetRequestContextWithTimeout
    \/ TimeoutCancel
    \/ ReturnThrough
    \/ PanicThrough
    \/ ServeHTTPFinish
    \/ DangerousHandler
    \/ GetByID
    \/ Switch

SpecConc == InitConc /\ [][NextConc]_vars

\* ================================================================ claims
OnMain == req.handlers = MainChain

OnTest == req.handlers = TestChain

\* what ErrorHandler and ErrorMiddleware wrote and logged
PipelineBodies == SelectSeq(body, LAMBDA b : b.by \in {"ErrorHandler", "ErrorMiddleware"})

PipelineLogs == SelectSeq(logs, LAMBDA l : l.logger = "middleware")

\* the handler wrote a response of its own
HandlerWrote == \E i \in 1..Len(body) : body[i].by = "Handler"

\* the failure the request ended with: the panic value if it panicked, else
\* the last attached error, else NoPanic
Failure ==
    IF recovered # NoPanic THEN recovered
    ELSE IF Len(errors) > 0 THEN Last(errors).Err
    ELSE NoPanic

\* C1: on the main chain (ErrorHandler around ErrorMiddleware) no request
\* leaves ServeHTTP by a panic, the pipeline never writes a second response,
\* and a finished request that attached an error (once, twice, the same or
\* different ones) or panicked has exactly one response written to the
\* client, the pipeline's.
C1_ExactlyOneResponse ==
    OnMain =>
        /\ pc # "crashed"
        /\ Len(PipelineBodies) <= 1
        /\ (pc = "done" /\ Failure # NoPanic) =>
               /\ Len(PipelineBodies) = 1
               /\ Len(PipelineLogs) = 1
               /\ wroteHeader
               /\ Len(body) = 1

C1_Witness ==
    /\ OnMain /\ pc = "done" /\ recovered = NoPanic
    /\ Len(errors) = 2 /\ errors[1] = errors[2]
    /\ Len(body) = 1

\* C2: when a handler attached an error and then panicked, the only response
\* of the pipeline is ErrorHandler's, it is the classification of the panic
\* value, and ErrorMiddleware neither wrote nor logged anything.
PanicClass(v) == IF IsError(v) THEN Classify(v) ELSE Classify(ErrInternalServerError)

C2_PanicTakesPrecedence ==
    (OnMain /\ Len(errors) > 0 /\ recovered # NoPanic) =>
        /\ \A i \in 1..Len(body) : body[i].by # "ErrorMiddleware"
        /\ \A i \in 1..Len(logs) : logs[i].by # "ErrorMiddleware"
        /\ Len(PipelineBodies) = 1
        /\ PipelineBodies[1].by = "ErrorHandler"
        /\ PipelineBodies[1].json = MarshalErrorResponse(PanicClass(recovered).resp)
        /\ (~HandlerWrote => status = PanicClass(recovered).code)

C2_Witness ==
    /\ OnMain /\ pc = "done"
    /\ errors = <<GinError(ErrNotFound)>>
    /\ recovered = StrVal("boom")
    /\ status = 500
    /\ Len(body) = 1 /\ body[1].by = "ErrorHandler"

\* C3: a failure that is neither an AppError (nor wraps one) nor a *gin.Error
\* (an opaque error, or a panic value that is not an error) is answered 500
\* with the one fixed body {code: 500, message: "服务器内部错误"}, no details
\* key, whatever the failure's content, and is logged at error severity.
OpaqueFailure(f) == ~IsError(f) \/ (AsAppError(f) = NilErr /\ ~IsGinError(f))

GenericBody == {<<"code", 500>>, <<"message", MsgInternalServerError>>}

C3_OpaqueFailuresAreGeneric ==
    (OnMain /\ pc = "done" /\ Failure # NoPanic /\ OpaqueFailure(Failure)) =>
        /\ Len(PipelineBodies) = 1
        /\ PipelineBodies[1].json = GenericBody
        /\ Len(PipelineLogs) = 1
        /\ PipelineLogs[1].level = "error"
        /\ (~HandlerWrote => status = 500)

C3_Witness ==
    /\ OnMain /\ pc = "done"
    /\ recovered = StrVal("boom")
    /\ status = 500
    /\ body = <<[by |-> "ErrorHandler", json |-> GenericBody]>>
    /\ logs[Len(logs)].level = "error"

\* C4 as claimed: a failure that is or wraps an AppError e is answered with status
\* e.Code and the body {code: e.Code, message: e.Message, details: e.Details},
\* the details key left out when e.Details is empty, and is logged at error
\* severity when e.Code >= 500 and at warn severity otherwise.
AppErrorJSON(e) ==
    {<<"code", e.Code>>, <<"message", e.Message>>}
        \cup {<<"details", e.Details>> : x \in IF e.Details = "" THEN {} ELSE {1}}

DetailsOf(json) == {p[2] : p \in {q \in json : q[1] = "details"}}

CodeOf(json) == CHOOSE c \in {p[2] : p \in {q \in json : q[1] = "code"}} : TRUE

\* C5: a request body that fails JSON binding in Store is answered 400 with
\* body code 400 and details equal to the binding library's message.
C5_BindingFailureHasDetails ==
    (OnMain /\ pc = "done" /\ req.route = "Store"
        /\ ShouldBindJSON(req.reqBody) # NilErr) =>
        /\ status = 400
        /\ Len(PipelineBodies) = 1
        /\ CodeOf(PipelineBodies[1].json) = 400
        /\ DetailsOf(PipelineBodies[1].json) = {ShouldBindJSON(req.reqBody).text}

\* C6: when the error attached to a request is a sentinel of package domain
\* (not-found, conflict, internal-server-error), the response has status
\* 404, 409 or 500, the fixed message of that status and no details key, and
\* is logged at warn severity for 404 and 409 and at error severity for 500.
DomainStatus(err) ==
    CASE err = DomainErrNotFound -> 404
      [] err = DomainErrConflict -> 409
      [] OTHER -> 500

C6_DomainSentinelMapped ==
    (OnMain /\ pc = "done" /\ recovered = NoPanic /\ ~HandlerWrote
        /\ Len(errors) > 0 /\ Last(errors).Err \in DomainSentinels) =>
        LET code == DomainStatus(Last(errors).Err) IN
        /\ status = code
        /\ Len(PipelineBodies) = 1
        /\ PipelineBodies[1].json =
               {<<"code", code>>, <<"message", getHTTPErrorMessage(code)>>}
        /\ PipelineLogs[1].level = (IF code >= 500 THEN "error" ELSE "warn")

\* C7 as claimed: every failure that reached the pipeline as a panic is
\* logged at error severity, whatever its status code.
C7_PanicsLoggedAtError ==
    (OnMain /\ recovered # NoPanic) =>
        \A i \in 1..Len(PipelineLogs) : PipelineLogs[i].level = "error"

\* C7: a failure that reached the pipeline as a panic is logged once, at the
\* severity of its classification: warn when the panic value is or wraps an
\* AppError with code < 500, or is a *gin.Error wrapping no AppError; error
\* in every other case (a value that is no error, an opaque error, an
\* AppError with code >= 500).
PanicLoggedAtWarn(v) ==
    /\ IsError(v)
    /\ ~HandleErrorPanics(v)
    /\ \/ AsAppError(v) # NilErr /\ AsAppError(v).Code < 500
       \/ AsAppError(v) = NilErr /\ IsGinError(v)

C7_PanicSeverityFollowsClass ==
    (OnMain /\ pc = "done" /\ recovered # NoPanic) =>
        /\ Len(PipelineLogs) = 1
        /\ PipelineLogs[1].by = "ErrorHandler"
        /\ PipelineLogs[1].level =
               (IF PanicLoggedAtWarn(recovered) THEN "warn" ELSE "error")

C7_Witness ==
    /\ OnMain /\ pc = "done"
    /\ recovered = ErrBadRequest
    /\ status = 400
    /\ Len(PipelineLogs) = 1 /\ PipelineLogs[1].level = "warn"

\* C8 as claimed: details is present only for validation or binding failures
\* (the 400 class), and no response with code >= 500 carries details.
C8_DetailsOnlyForValidation ==
    OnMain =>
        \A i \in 1..Len(PipelineBodies) :
            LET json == PipelineBodies[i].json IN
            /\ DetailsOf(json) # {} => CodeOf(json) = 400
            /\ CodeOf(json) >= 500 => DetailsOf(json) = {}

\* C8: the details of an error response are what the raising site provided:
\* the Details of the AppError when it is non-empty, whatever the code (a
\* response with code >= 500 carries them too), or the error text of a
\* *gin.Error; otherwise the key is absent.  Details is never derived from
\* the cause an AppError wraps.
C8_DetailsOnlyWhenGiven ==
    (OnMain /\ pc = "done" /\ Failure # NoPanic) =>
        LET e == IF IsError(Failure) THEN AsAppError(Failure) ELSE NilErr
            json == PipelineBodies[1].json
        IN /\ Len(PipelineBodies) = 1
           /\ DetailsOf(json) =
                IF e # NilErr
                THEN (IF e.Err # NilErr \/ e.Details = "" THEN {} ELSE {e.Details})
                ELSE IF IsError(Failure) /\ IsGinError(Failure)
                     THEN {ErrorText(Failure)}
                     ELSE {}

C8_Witness ==
    /\ OnMain /\ pc = "done"
    /\ Failure = NewAppError(503, "unavailable", "db down")
    /\ status = 503
    /\ Len(body) = 1
    /\ DetailsOf(body[1].json) = {"db down"}

\* C9: on the router of the handler tests (gin.New() then NewArticleHandler),
\* when ArticleService.Fetch returns an error the response has status
\* getStatusCode(err) and no X-Cursor header.
C9_FetchErrorStatus ==
    (OnTest /\ pc = "done" /\ req.route = "Fetch"
        /\ Len(svcCalls) = 1 /\ svcCalls[1].err # NilErr) =>
        /\ status = DomainStatus(svcCalls[1].err)
        /\ ~\E h \in headers : h[1] = "X-Cursor"

\* C10: on the router of the handler tests, GET and DELETE /articles/:id with
\* a non-integer id and POST /articles with a body that is not JSON are
\* answered 400 and invoke no ArticleService method.
C10_InvalidInputIs400 ==
    (OnTest /\ pc = "done"
        /\ \/ req.route \in {"GetByID", "Delete"} /\ req.idParam = "invalid"
           \/ req.route = "Store" /\ req.reqBody = "invalid json") =>
        /\ status = 400
        /\ svcCalls = <<>>

\* C11: when the handler finished without attaching an error and without
\* panicking, ErrorMiddleware and ErrorHandler wrote nothing, logged nothing
\* and did not abort the chain; status, headers and body are the handler's:
\* 200 with X-Cursor equal to the service's next cursor for Fetch (the value
\* read from the response headers, which is empty for an absent header),
\* 200 for GetByID, 201 for Store, 204 (and no body) for Delete.
HeaderGet(name) ==
    IF \E h \in headers : h[1] = name
    THEN (CHOOSE h \in headers : h[1] = name)[2] ELSE ""

HandlerHeaders ==
    {h \in headers : h[1] \in {"X-Cursor", "Content-Type"}}

JSONType == <<"Content-Type", "application/json; charset=utf-8">>

C11_NoErrorNoEffect ==
    (pc = "done" /\ errors = <<>> /\ recovered = NoPanic
        /\ (OnMain => req.method # "OPTIONS")) =>
        /\ PipelineBodies = <<>>
        /\ logs = <<>>
        /\ ~aborted
        /\ \A i \in 1..Len(body) : body[i].by = "Handler"
        /\ CASE req.route = "Fetch" ->
                  /\ status = 200 /\ Len(body) = 1
                  /\ HeaderGet("X-Cursor") = svcCalls[1].next
                  /\ HandlerHeaders \subseteq {<<"X-Cursor", svcCalls[1].next>>, JSONType}
                  /\ JSONType \in HandlerHeaders
             [] req.route = "GetByID" ->
                  status = 200 /\ Len(body) = 1 /\ HandlerHeaders = {JSONType}
             [] req.route = "Store" ->
                  status = 201 /\ Len(body) = 1 /\ HandlerHeaders = {JSONType}
             [] req.route = "Delete" ->
                  status = 204 /\ body = <<>> /\ HandlerHeaders = {}
             [] OTHER ->
                  /\ status = 200 /\ Len(body) <= 1
                  /\ HandlerHeaders = (IF HandlerWrote THEN {JSONType} ELSE {})

C11_Witness ==
    /\ OnMain /\ pc = "done" /\ req.route = "Fetch"
    /\ errors = <<>> /\ recovered = NoPanic /\ logs = <<>> /\ ~aborted
    /\ status = 200
    /\ svcCalls[1].next = "20"
    /\ <<"X-Cursor", "20">> \in headers
    /\ Len(body) = 1 /\ body[1].by = "Handler"

\* C12 as claimed: every AppError that reaches handleError, the sentinels and
\* whatever NewAppError or NewAppErrorWithErr built from any arguments, has a
\* valid HTTP status as its code and a non-empty message.
ValidHTTPStatus(code) == code \in 100..599

C12_EveryAppErrorValid ==
    (OnMain /\ pc = "done" /\ recovered = NoPanic /\ Len(errors) > 0
        /\ errors[Len(errors)].Err.k = "app") =>
        /\ ValidHTTPStatus(errors[Len(errors)].Err.Code)
        /\ errors[Len(errors)].Err.Message # ""

\* C12: the six sentinels, and every AppError the article handlers attach
\* (ErrBadRequest, or NewAppErrorWithErr with 400 or getStatusCode(err) and a
\* fixed message), have a code that is a valid HTTP status (400, 404, 409 or
\* 500) and a non-empty message, and the status written for them is that
\* code.  The constructors themselves accept any code and message.
ArticleRoutes == {"Fetch", "GetByID", "Store", "Delete"}

C12_RepositoryAppErrorsValid ==
    /\ \A n \in DOMAIN sentinels :
          ValidHTTPStatus(sentinels[n].Code) /\ sentinels[n].Message # ""
    /\ req.route \in ArticleRoutes =>
         \A i \in 1..Len(errors) :
            /\ errors[i].Err.k = "app"
            /\ errors[i].Err.Code \in {400, 404, 409, 500}
            /\ errors[i].Err.Message # ""
    /\ (OnMain /\ pc = "done" /\ req.route \in ArticleRoutes /\ Len(errors) > 0) =>
         status = errors[Len(errors)].Err.Code
    /\ (OnMain /\ pc = "done" /\ recovered = NoPanic /\ Len(errors) > 0
           /\ errors[Len(errors)].Err.k = "app"
           /\ errors[Len(errors)].Err.Code = 0) =>
         /\ status = 200
         /\ CodeOf(PipelineBodies[1].json) = 0

C12_Witness ==
    /\ OnMain /\ pc = "done" /\ req.route = "Delete"
    /\ Len(svcCalls) = 1 /\ svcCalls[1].err = Opaque("sql: connection refused")
    /\ Len(errors) = 1 /\ errors[1].Err.Code = 500
    /\ status = 500

\* C13: with requests served concurrently, no step of ErrorHandler,
\* ErrorMiddleware or handleError writes to the sentinel AppErrors, and in
\* every interleaving each finished request has the status, the body and the
\* log severity that its own route, parameters and service result determine:
\* those it gets when it is served alone.
Outcome(st) ==
    [status |-> st.status, body |-> st.body,
     levels |-> LET l == SelectSeq(st.logs, LAMBDA x : x.logger = "middleware")
                IN [i \in 1..Len(l) |-> l[i].level]]

ErrorOutcome(code, message, by) ==
    [status |-> code,
     body |-> <<[by |-> by, json |-> {<<"code", code>>, <<"message", message>>}]>>,
     levels |-> <<IF code >= 500 THEN "error" ELSE "warn">>]

AloneOutcome(st) ==
    CASE st.req.route = "Dangerous" ->
            ErrorOutcome(500, MsgInternalServerError, "ErrorHandler")
      [] st.req.route = "GetByID" /\ st.req.idParam = "invalid" ->
            ErrorOutcome(400, MsgBadRequest, "ErrorMiddleware")
      [] st.req.route = "GetByID" /\ st.req.idParam = "7"
            /\ st.svcCalls[1].err = NilErr ->
            [status |-> 200, body |-> <<[by |-> "Handler", json |-> {<<"id", 7>>}]>>,
             levels |-> <<>>]
      [] st.req.route = "GetByID" /\ st.req.idParam = "7"
            /\ st.svcCalls[1].err # NilErr ->
            ErrorOutcome(DomainStatus(st.svcCalls[1].err), MsgGetFailed, "ErrorMiddleware")

InFlight == {Snapshot} \cup {parked[i] : i \in 1..Len(parked)}

C13_NoInterference ==
    /\ sentinels = SentinelVars
    /\ \A st \in InFlight :
          (st.req \in ConcRequests /\ st.pc = "done") => Outcome(st) = AloneOutcome(st)

C13_Witness ==
    /\ Len(parked) >= 1
    /\ pc = "done" /\ req.route = "Dangerous" /\ status = 500
    /\ body = <<[by |-> "ErrorHandler", json |-> GenericBody]>>
    /\ parked[1].req.idParam = "invalid"
    /\ parked[1].pc = "return" /\ parked[1].idx = 3
    /\ parked[1].status = 400 /\ Len(parked[1].body) = 1

\* C14: ErrorHandler is registered before ErrorMiddleware and so wraps it.
\* A panic raised inside HandleError (attaching the nil error) or inside
\* ErrorMiddleware's handleError (classifying a nil error or a nil *AppError)
\* never leaves ServeHTTP: it is caught by ErrorHandler, and the request
\* ends with exactly one pipeline response, the 500 JSON of ErrorHandler.
\* A request leaves ServeHTTP by a panic only when the recovery callback had
\* itself panicked on the value a handler panicked with.
InnerPanics == {StrVal("err is nil"), NilDereference}

InnerPanicInFlight ==
    OnMain /\ pc = "panic" /\ panicVal \in InnerPanics /\ recovered = NoPanic

EndedIn500 ==
    /\ pc = "done"
    /\ recovered \in InnerPanics
    /\ PipelineBodies = <<[by |-> "ErrorHandler", json |-> GenericBody]>>
    /\ Len(PipelineLogs) = 1
    /\ (~HandlerWrote => status = 500 /\ Len(body) = 1)

C14_InnerPanicEndsIn500 ==
    /\ [](OnMain /\ pc = "crashed" =>
            IsError(recovered) /\ HandleErrorPanics(recovered))
    /\ [](OnMain /\ pc = "done" /\ recovered \in InnerPanics => EndedIn500)
    /\ (InnerPanicInFlight ~> EndedIn500)

C14_Witness ==
    /\ OnMain /\ pc = "done"
    /\ errors = <<GinError(NilAppError)>>
    /\ recovered = NilDereference
    /\ status = 500
    /\ body = <<[by |-> "ErrorHandler", json |-> GenericBody]>>

\* C15: when a handler attached several errors and returned, the response
\* status, the response body and the log severity are those of the last
\* attached error alone (its AppError, else the binding answer of a
\* *gin.Error, else the generic 500; the generic 500 of ErrorHandler when
\* classifying it panics), whatever the earlier attachments were.
ClassOfLast(e) ==
    IF HandleErrorPanics(e)
    THEN [code |-> 500, json |-> GenericBody, level |-> "error", by |-> "ErrorHandler"]
    ELSE IF AsAppError(e) # NilErr
    THEN [code |-> AsAppError(e).Code, json |-> AppErrorJSON(AsAppError(e)),
          level |-> IF AsAppError(e).Code >= 500 THEN "error" ELSE "warn",
          by |-> "ErrorMiddleware"]
    ELSE IF IsGinError(e)
    THEN [code |-> 400,
          json |-> {<<"code", 400>>, <<"message", MsgBadRequest>>,
                    <<"details", ErrorText(e)>>},
          level |-> "warn", by |-> "ErrorMiddleware"]
    ELSE [code |-> 500, json |-> GenericBody, level |-> "error",
          by |-> "ErrorMiddleware"]

C15_LastErrorAlone ==
    (OnMain /\ pc = "done" /\ Len(errors) >= 2
        /\ recovered \in {NoPanic, NilDereference}) =>
        LET c == ClassOfLast(errors[Len(errors)].Err) IN
        /\ PipelineBodies = <<[by |-> c.by, json |-> c.json]>>
        /\ (~HandlerWrote => status = c.code)
        /\ Len(PipelineLogs) = 1
        /\ PipelineLogs[1].level = c.level

C15_Witness ==
    /\ OnMain /\ pc = "done" /\ recovered = NoPanic
    /\ errors = <<GinError(ErrInternalServerError), GinError(ErrNotFound)>>
    /\ status = 404
    /\ body = <<[by |-> "ErrorMiddleware",
                 json |-> {<<"code", 404>>, <<"message", MsgNotFound>>}]>>
    /\ Len(PipelineLogs) = 1 /\ PipelineLogs[1].level = "warn"

====
